---------------------------- MODULE Spec2Model ----------------------------
(***************************************************************************)
(* A model of the stroke-lesion RAMP kit: the score functions, the         *)
(* prediction container, the cross-validation splitter and the data reader *)
(* of problem.py, and the minibatch generators of the deep_learn           *)
(* estimator.                                                              *)
(*                                                                         *)
(* Volumes are modelled flattened (ravel order): a volume of shape         *)
(* (NVox, 1, 1) is the sequence of its NVox voxels.  Floating-point scores *)
(* are exact rationals <<numerator, denominator>>; <<1, 0>> is +inf and    *)
(* <<0, 0>> is NaN (what numpy yields for 0.0 / 0.0).                      *)
(***************************************************************************)
EXTENDS Integers, Sequences, FiniteSets, TLC

VARIABLES
    \* ---- score functions (problem.py 23-125)
    y_true_mask,    \* the truth mask handed to the score
    y_pred_mask,    \* the prediction mask handed to the score
    sc_name,        \* the score type last called ("none" before any call)
    sc_outcome,     \* "none" | "returned" | "AssertionError"
    sc_score,       \* the returned value, None when nothing was returned
    sc_delegated,   \* TRUE when the library precision/recall routine ran
    \* ---- _MultiClass3d.__init__ (problem.py 131-165)
    ct_args,        \* the constructor's arguments
    ct_self,        \* the object under construction (None before y_pred is set)
    ct_exc,         \* "none" | "ValueError"
    ct_pc,          \* "args" | "done"
    \* ---- _MultiClass3d.combine / valid_indexes (problem.py 167-196)
    cb_preds,       \* predictions_list
    cb_index_list,  \* index_list (None or a list of 0-based positions)
    cb_result,      \* the combined container (None before combine returns)
    cb_valid,       \* the last answer of valid_indexes (None before a query)
    cb_pc,          \* "args" | "combined" | "queried" | "ValueError"
    \* ---- get_cv (problem.py 235-243)
    cv_env,         \* RAMP_TEST_MODE: None when unset, <<s>> when set to s
    cv_n,           \* the number of samples of X
    cv_n_splits,    \* n_splits of the ShuffleSplit built (None before)
    cv_yielded,     \* how many splits the iterator has yielded
    cv_split,       \* the split last yielded (None before the first)
    cv_pc,          \* "args" | "iterating" | "exhausted" | "ValueError"
    \* ---- _read_data (problem.py 246-277)
    rd_dirs,        \* the truth volume of each subject directory, as listed
    rd_env,         \* RAMP_TEST_MODE
    rd_list,        \* list_subj_dirs: positions into rd_dirs
    rd_X,           \* the path array
    rd_y,           \* the label tensor, one row per subject
    rd_idx,         \* the loop index
    rd_pc,          \* "args" | "loop" | "returned" | "AssertionError"
    \* ---- _build_test_generator (estimator.py 98-108)
    tg_nb,          \* img_loader.n_paths
    tg_batch_size,  \* batch_size
    tg_start,       \* the next value of the for loop's start
    tg_X,           \* the preallocated batch buffer
    tg_yielded,     \* the minibatches the consumer has received, in order
    tg_pc,          \* "running" | "done"
    \* ---- fit / _build_train_generator (estimator.py 71-96, 131-156)
    tr_nb,          \* len(X) in fit
    tr_role,        \* which generator of fit: "train" | "valid"
    tr_indices,     \* the generator's copy of its index list
    tr_batch_size,  \* batch_size
    tr_start,       \* the next value of the for loop's start
    tr_X,           \* the preallocated batch buffer (images)
    tr_batch,       \* the minibatch last yielded (None before the first)
    tr_pass,        \* the images yielded so far in the current pass
    tr_requested,   \* TRUE while a next() call is waiting for its minibatch
    tr_pc           \* "fit" | "while" | "for"

scoreVars == <<y_true_mask, y_pred_mask, sc_name, sc_outcome, sc_score,
               sc_delegated>>

ctorVars == <<ct_args, ct_self, ct_exc, ct_pc>>
combineVars == <<cb_preds, cb_index_list, cb_result, cb_valid, cb_pc>>

cvVars == <<cv_env, cv_n, cv_n_splits, cv_yielded, cv_split, cv_pc>>
readVars == <<rd_dirs, rd_env, rd_list, rd_X, rd_y, rd_idx, rd_pc>>

testGenVars == <<tg_nb, tg_batch_size, tg_start, tg_X, tg_yielded, tg_pc>>
trainGenVars == <<tr_nb, tr_role, tr_indices, tr_batch_size, tr_start, tr_X,
                  tr_batch, tr_pass, tr_requested, tr_pc>>

vars == <<scoreVars, ctorVars, combineVars, cvVars, readVars, testGenVars,
          trainGenVars>>

\* Python's None; an optional integer n is carried as <<n>>
None == <<>>

\* floats are <<numerator, denominator>>
NaN == <<0, 0>>
isnan(v) == v[2] = 0 /\ v[1] = 0

-----------------------------------------------------------------------------
(* Bounds of the model *)

\* voxels per volume in the score-function model
NVox == 3

\* the values a voxel of a mask handed to a score may hold: the two labels
\* and one value outside the label set
MaskValues == {0, 1, 2}

Masks == [1..NVox -> MaskValues]

-----------------------------------------------------------------------------
(* numpy helpers *)

RECURSIVE np_sum(_)
np_sum(a) == IF a = <<>> THEN 0 ELSE Head(a) + np_sum(Tail(a))

np_any(a) == \E i \in 1..Len(a) : a[i] # 0

np_logical_and(a, b) ==
    [i \in 1..Len(a) |-> IF a[i] # 0 /\ b[i] # 0 THEN 1 ELSE 0]

Scale(a, k) == [i \in 1..Len(a) |-> a[i] * k]

Abs(x) == IF x < 0 THEN -x ELSE x

Max(S) == CHOOSE x \in S : \A y \in S : y <= x
Min(S) == CHOOSE x \in S : \A y \in S : x <= y

np_nonzero(a) == {i \in 1..Len(a) : a[i] # 0}

-----------------------------------------------------------------------------
(* Score functions *)

check_mask_first_only(mask) == Len(mask) = 0 \/ mask[1] \in {0, 1}

\* check_mask: TRUE when the assertion passes
check_mask(mask) == \A i \in 1..Len(mask) : mask[i] \in {0, 1}

dice_coeff_no_special_case(t, p) ==
    <<np_sum(Scale(np_logical_and(p, t), 2)), np_sum(p) + np_sum(t)>>

\* DiceCoeff._dice_coeff
dice_coeff(t, p) ==
    IF (~np_any(p)) /\ (~np_any(t))
    THEN <<1, 1>>
    ELSE <<np_sum(Scale(np_logical_and(p, t), 2)), np_sum(p) + np_sum(t)>>

\* sklearn precision_score on binary labels (pos_label 1): tp / (tp + fp),
\* and 0.0 (with a warning) when nothing is predicted positive
precision_score(t, p) ==
    LET tp == Cardinality({i \in 1..Len(t) : t[i] = 1 /\ p[i] = 1})
        fp == Cardinality({i \in 1..Len(t) : t[i] = 0 /\ p[i] = 1})
    IN  IF tp + fp = 0 THEN <<0, 1>> ELSE <<tp, tp + fp>>

\* sklearn recall_score on binary labels: tp / (tp + fn), 0.0 when no
\* positive label exists
recall_score(t, p) ==
    LET tp == Cardinality({i \in 1..Len(t) : t[i] = 1 /\ p[i] = 1})
        fn == Cardinality({i \in 1..Len(t) : t[i] = 1 /\ p[i] = 0})
    IN  IF tp + fn = 0 THEN <<0, 1>> ELSE <<tp, tp + fn>>

\* skimage.metrics.hausdorff_distance on a volume of shape (NVox, 1, 1):
\* the larger of the two directed distances, 0 for two empty masks and inf
\* when exactly one mask is empty
hausdorff_distance(a, b) ==
    LET ap == np_nonzero(a)
        bp == np_nonzero(b)
        directed(P, Q) == Max({Min({Abs(x - y) : y \in Q}) : x \in P})
    IN  IF ap = {} THEN (IF bp = {} THEN <<0, 1>> ELSE <<1, 0>>)
        ELSE IF bp = {} THEN <<1, 0>>
        ELSE <<Max({directed(ap, bp), directed(bp, ap)}), 1>>

\* the body of AbsoluteVolumeDifference.__call__ after the two checks
avd(t, p) == <<Abs(np_sum(t) - np_sum(p)), Len(t)>>

precision_body_pred_empty_only(t, p) ==
    IF np_sum(p) = 0
    THEN [score |-> <<0, 1>>, delegated |-> FALSE]
    ELSE [score |-> precision_score(t, p), delegated |-> TRUE]

\* the body of Precision.__call__ after the two checks
precision_body(t, p) ==
    IF np_sum(p) = 0 /\ ~(np_sum(t) = 0)
    THEN [score |-> <<0, 1>>, delegated |-> FALSE]
    ELSE [score |-> precision_score(t, p), delegated |-> TRUE]

\* the common shape of the five __call__ methods: both masks are checked,
\* truth first, then the score is computed
Call(name, body) ==
    /\ sc_name' = name
    /\ UNCHANGED <<y_true_mask, y_pred_mask>>
    /\ IF check_mask(y_true_mask) /\ check_mask(y_pred_mask)
       THEN /\ sc_outcome' = "returned"
            /\ sc_score' = body.score
            /\ sc_delegated' = body.delegated
       ELSE /\ sc_outcome' = "AssertionError"
            /\ sc_score' = None
            /\ sc_delegated' = FALSE

DiceCoeff_call ==
    Call("DiceCoeff", [score |-> dice_coeff(y_true_mask, y_pred_mask),
                       delegated |-> FALSE])

Precision_call ==
    Call("Precision", precision_body(y_true_mask, y_pred_mask))

Recall_call ==
    Call("Recall", [score |-> recall_score(y_true_mask, y_pred_mask),
                    delegated |-> TRUE])

HausdorffDistance_call ==
    Call("HausdorffDistance",
         [score |-> hausdorff_distance(y_true_mask, y_pred_mask),
          delegated |-> TRUE])

AbsoluteVolumeDifference_call ==
    Call("AbsoluteVolumeDifference",
         [score |-> avd(y_true_mask, y_pred_mask), delegated |-> FALSE])

-----------------------------------------------------------------------------
(* The prediction container *)

\* the largest n_samples handed to the constructor or held by a container
MaxSamples == 1

\* the largest number of containers in a predictions_list, and the longest
\* index_list
MaxPreds == 2

\* the extents an axis of an array or a configured dimension may have
Extents == {1, 2}

\* the ranks of the arrays handed to the constructor
Ranks == {1, 2, 3, 4, 5}

\* the floats a container handed to combine may hold: NaN, 0.0, 0.2, 1.0
FloatValues == {NaN, <<0, 1>>, <<1, 5>>, <<1, 1>>}

\* the kit's label set
prediction_label_names == <<0, 1>>

\* the kit's Predictions class, its 193 x 229 x 193 volume scaled to one voxel
Predictions_dims == <<1, 1, 1>>

RECURSIVE Prod(_)
Prod(s) == IF s = <<>> THEN 1 ELSE Head(s) * Prod(Tail(s))

\* an ndarray: its shape and its entries in ravel order
np_full(shape, v) == [shape |-> shape, data |-> [i \in 1..Prod(shape) |-> v]]

Shapes == UNION {[1..r -> Extents] : r \in Ranks}

check_y_pred_dimensions_rank_only(self) ==
    IF Len(self.y_pred.shape) # 4 THEN "ValueError" ELSE "none"

\* _MultiClass3d.check_y_pred_dimensions: the exception it raises, if any
check_y_pred_dimensions(self) ==
    IF Len(self.y_pred.shape) # 4
    THEN "ValueError"
    ELSE IF Tail(self.y_pred.shape) # <<self.x_len, self.y_len, self.z_len>>
         THEN "ValueError"
         ELSE "none"

MultiClass3d_init_y_true_first(x_len, y_len, z_len, label_names, y_pred, y_true, n_samples) ==
    LET self == [x_len |-> x_len, y_len |-> y_len, z_len |-> z_len,
                 label_names |-> label_names]
        checked(obj) == [self |-> obj, exc |-> check_y_pred_dimensions(obj)]
    IN  IF y_true # None
        THEN checked(self @@ [y_pred |-> y_true])
        ELSE IF y_pred # None
        THEN checked(self @@ [y_pred |-> y_pred])
        ELSE IF n_samples # None
        THEN checked(self @@ [y_pred |->
                 np_full(<<n_samples[1], x_len, y_len, z_len>>, NaN)])
        ELSE [self |-> None, exc |-> "ValueError"]

\* _MultiClass3d.__init__: the object as far as it was built, and the
\* exception raised, if any
MultiClass3d_init(x_len, y_len, z_len, label_names, y_pred, y_true, n_samples) ==
    LET self == [x_len |-> x_len, y_len |-> y_len, z_len |-> z_len,
                 label_names |-> label_names]
        checked(obj) == [self |-> obj, exc |-> check_y_pred_dimensions(obj)]
    IN  IF y_pred # None
        THEN checked(self @@ [y_pred |-> y_pred])
        ELSE IF y_true # None
        THEN checked(self @@ [y_pred |-> y_true])
        ELSE IF n_samples # None
        THEN checked(self @@ [y_pred |->
                 np_full(<<n_samples[1], x_len, y_len, z_len>>, NaN)])
        ELSE [self |-> None, exc |-> "ValueError"]

\* the constructor is called on the arguments drawn
Construct ==
    /\ ct_pc = "args"
    /\ LET r == MultiClass3d_init(ct_args.x_len, ct_args.y_len, ct_args.z_len,
                                  ct_args.label_names, ct_args.y_pred,
                                  ct_args.y_true, ct_args.n_samples)
       IN  /\ ct_self' = r.self
           /\ ct_exc' = r.exc
    /\ ct_pc' = "done"
    /\ UNCHANGED ct_args

\* arrays handed over as y_pred hold 1.0, those handed over as y_true 0.0
CtorInit ==
    /\ ct_args \in
         [x_len : Extents, y_len : Extents, z_len : Extents,
          label_names : {prediction_label_names},
          y_pred : {None} \cup {np_full(s, <<1, 1>>) : s \in Shapes},
          y_true : {None} \cup {np_full(s, <<0, 1>>) : s \in Shapes},
          n_samples : {None} \cup {<<n>> : n \in 0..MaxSamples}]
    /\ ct_self = None
    /\ ct_exc = "none"
    /\ ct_pc = "args"

CtorIdle ==
    /\ ct_args = None
    /\ ct_self = None
    /\ ct_exc = "none"
    /\ ct_pc = "idle"

-----------------------------------------------------------------------------
(* combine and valid_indexes *)

RatAdd(a, b) == <<a[1] * b[2] + b[1] * a[2], a[2] * b[2]>>

RECURSIVE RatSum(_)
RatSum(vs) == IF vs = <<>> THEN <<0, 1>> ELSE RatAdd(Head(vs), RatSum(Tail(vs)))

\* np.nanmean of a list of floats: the mean of those that are not NaN, and
\* NaN (with a RuntimeWarning) when there is none
np_nanmean(vs) ==
    LET kept == SelectSeq(vs, LAMBDA v : ~isnan(v))
        total == RatSum(kept)
    IN  IF kept = <<>> THEN NaN ELSE <<total[1], total[2] * Len(kept)>>

\* v < 0.5 and v >= 0.5 as numpy compares floats: both FALSE for NaN
lt_half(v) == v[2] > 0 /\ 2 * v[1] < v[2]
ge_half(v) == v[2] > 0 /\ 2 * v[1] >= v[2]
gt_half(v) == v[2] > 0 /\ 2 * v[1] > v[2]

\* BasePrediction.combine of rampwf, as the kit calls it: the containers at
\* index_list (all of them for None) are stacked, averaged entry by entry
\* with nanmean, and the average is wrapped in a new container
base_combine(dims, predictions_list, index_list) ==
    LET idx == IF index_list = None
               THEN [i \in 1..Len(predictions_list) |-> i - 1]
               ELSE index_list
        first == predictions_list[idx[1] + 1].y_pred
        y_comb == [shape |-> first.shape,
                   data |-> [e \in 1..Len(first.data) |->
                       np_nanmean([j \in 1..Len(idx) |->
                           predictions_list[idx[j] + 1].y_pred.data[e]])]]
    IN  MultiClass3d_init(dims[1], dims[2], dims[3], prediction_label_names,
                          y_comb, None, None)

threshold_strict(y) ==
    LET low == [y EXCEPT !.data = [e \in 1..Len(y.data) |->
                   IF lt_half(y.data[e]) THEN <<0, 1>> ELSE y.data[e]]]
    IN  [low EXCEPT !.data = [e \in 1..Len(low.data) |->
            IF gt_half(low.data[e]) THEN <<1, 1>> ELSE low.data[e]]]

\* the two masked assignments of _MultiClass3d.combine
threshold(y) ==
    LET low == [y EXCEPT !.data = [e \in 1..Len(y.data) |->
                   IF lt_half(y.data[e]) THEN <<0, 1>> ELSE y.data[e]]]
    IN  [low EXCEPT !.data = [e \in 1..Len(low.data) |->
            IF ge_half(low.data[e]) THEN <<1, 1>> ELSE low.data[e]]]

\* _MultiClass3d.valid_indexes
valid_indexes(self) ==
    IF Len(self.y_pred.shape) = 4
    THEN [exc |-> "none",
          value |-> [e \in 1..Len(self.y_pred.data) |-> ~isnan(self.y_pred.data[e])]]
    ELSE [exc |-> "ValueError", value |-> None]

\* _MultiClass3d.combine
Combine ==
    /\ cb_pc = "args"
    /\ LET r == base_combine(Predictions_dims, cb_preds, cb_index_list)
       IN  IF r.exc = "none"
           THEN /\ cb_result' = [r.self EXCEPT !.y_pred = threshold(r.self.y_pred)]
                /\ cb_pc' = "combined"
           ELSE /\ cb_result' = None
                /\ cb_pc' = r.exc
    /\ UNCHANGED <<cb_preds, cb_index_list, cb_valid>>

\* the harness asks the combined container for its valid indexes
ValidIndexes ==
    /\ cb_pc = "combined"
    /\ cb_valid' = valid_indexes(cb_result).value
    /\ cb_pc' = "queried"
    /\ UNCHANGED <<cb_preds, cb_index_list, cb_result>>

\* the containers of the kit's Predictions class that hold n samples
Containers(n) ==
    {MultiClass3d_init(Predictions_dims[1], Predictions_dims[2],
                       Predictions_dims[3], prediction_label_names,
                       [shape |-> <<n>> \o Predictions_dims, data |-> d],
                       None, None).self :
        d \in [1..(n * Prod(Predictions_dims)) -> FloatValues]}

IndexLists(k) ==
    {None} \cup UNION {[1..m -> 0..(k - 1)] : m \in 1..MaxPreds}

CombineInit ==
    /\ \E n \in 1..MaxSamples : \E k \in 1..MaxPreds :
          /\ cb_preds \in [1..k -> Containers(n)]
          /\ cb_index_list \in IndexLists(k)
    /\ cb_result = None
    /\ cb_valid = None
    /\ cb_pc = "args"

CombineIdle ==
    /\ cb_preds = None
    /\ cb_index_list = None
    /\ cb_result = None
    /\ cb_valid = None
    /\ cb_pc = "idle"

-----------------------------------------------------------------------------
(* get_cv *)

\* the largest dataset handed to get_cv
MaxCvSamples == 5

\* the values RAMP_TEST_MODE is given when it is set
EnvStrings == {"", "0", "1"}

\* os.getenv(name, default): the variable's string, or the default; the
\* environment holds None for an unset variable and <<s>> for one set to s
os_getenv(env, default) ==
    IF env = None THEN default ELSE [type |-> "str", value |-> env[1]]

\* Python's truth value of an int or a str
truthy(v) == IF v.type = "str" THEN v.value # "" ELSE v.value # 0

get_cv_n_splits_if_set(env) ==
    IF env # None THEN 1 ELSE 8

\* n_splits as get_cv picks it
get_cv_n_splits(env) ==
    LET test == os_getenv(env, [type |-> "int", value |-> 0])
    IN  IF truthy(test) THEN 1 ELSE 8

\* sklearn's _validate_shuffle_split for test_size = 0.2, train_size = None:
\* n_test = ceil(0.2 * n), n_train = n - n_test
shuffle_split_n_test(n) == (n + 4) \div 5
shuffle_split_n_train(n) == n - shuffle_split_n_test(n)

\* get_cv: the splitter is built and its (lazy) split iterator returned
GetCv ==
    /\ cv_pc = "args"
    /\ cv_n_splits' = get_cv_n_splits(cv_env)
    /\ cv_pc' = "iterating"
    /\ UNCHANGED <<cv_env, cv_n, cv_yielded, cv_split>>

\* the harness asks the iterator for the next split; an empty train set is
\* refused on the first request
CvNextSplit ==
    /\ cv_pc = "iterating"
    /\ IF shuffle_split_n_train(cv_n) = 0
       THEN /\ cv_pc' = "ValueError"
            /\ UNCHANGED <<cv_yielded, cv_split>>
       ELSE IF cv_yielded < cv_n_splits
       THEN \E test \in SUBSET (0..(cv_n - 1)) :
               /\ Cardinality(test) = shuffle_split_n_test(cv_n)
               /\ cv_split' = [train |-> (0..(cv_n - 1)) \ test, test |-> test]
               /\ cv_yielded' = cv_yielded + 1
               /\ cv_pc' = "iterating"
       ELSE /\ cv_pc' = "exhausted"
            /\ UNCHANGED <<cv_yielded, cv_split>>
    /\ UNCHANGED <<cv_env, cv_n, cv_n_splits>>

CvInit ==
    /\ cv_env \in {None} \cup {<<s>> : s \in EnvStrings}
    /\ cv_n \in 0..MaxCvSamples
    /\ cv_n_splits = None
    /\ cv_yielded = 0
    /\ cv_split = None
    /\ cv_pc = "args"

CvIdle ==
    /\ cv_env = None
    /\ cv_n = 0
    /\ cv_n_splits = None
    /\ cv_yielded = 0
    /\ cv_split = None
    /\ cv_pc = "idle"

-----------------------------------------------------------------------------
(* _read_data *)

\* the largest number of subject directories
MaxSubjects == 4

\* a truth volume, scaled to one voxel, as load_img(...).get_fdata() returns
\* it: a label or a value outside the label set
TruthVolumes == {<<0>>, <<1>>, <<2>>}

\* what a row of np.empty((n_samples, ...)) may hold before it is written
UninitializedRows == {<<0>>, <<1>>, <<2>>}

\* np.in1d(y, labels) over the whole tensor, then np.all
all_in_labels(y) ==
    \A i \in 1..Len(y) : \A e \in 1..Len(y[i]) :
        \E l \in 1..Len(prediction_label_names) :
            y[i][e] = prediction_label_names[l]

\* listdir, the test-mode cut, and the allocation of X and y
ReadStart ==
    /\ rd_pc = "args"
    /\ LET test == os_getenv(rd_env, [type |-> "int", value |-> 0])
           listed == [i \in 1..Len(rd_dirs) |-> i]
           list_subj_dirs == IF truthy(test)
                             THEN SubSeq(listed, 1, Min({3, Len(listed)}))
                             ELSE listed
           n_samples == Len(list_subj_dirs)
       IN  /\ rd_list' = list_subj_dirs
           /\ rd_X' = [i \in 1..n_samples |-> <<>>]
           /\ rd_y' \in [1..n_samples -> UninitializedRows]
    /\ rd_idx' = 0
    /\ rd_pc' = "loop"
    /\ UNCHANGED <<rd_dirs, rd_env>>

\* one pass of the for loop: the path, the truth volume, the assertion over
\* the whole of y
ReadSubject ==
    /\ rd_pc = "loop"
    /\ rd_idx < Len(rd_list)
    /\ LET next_subj == rd_list[rd_idx + 1]
           y == [rd_y EXCEPT ![rd_idx + 1] = rd_dirs[next_subj]]
       IN  /\ rd_X' = [rd_X EXCEPT ![rd_idx + 1] = <<next_subj, "T1.nii.gz">>]
           /\ rd_y' = y
           /\ IF all_in_labels(y)
              THEN /\ rd_idx' = rd_idx + 1
                   /\ rd_pc' = "loop"
              ELSE /\ rd_idx' = rd_idx
                   /\ rd_pc' = "AssertionError"
    /\ UNCHANGED <<rd_dirs, rd_env, rd_list>>

\* the loop is over: return X, y
ReadReturn ==
    /\ rd_pc = "loop"
    /\ rd_idx = Len(rd_list)
    /\ rd_pc' = "returned"
    /\ UNCHANGED <<rd_dirs, rd_env, rd_list, rd_X, rd_y, rd_idx>>

ReadInit ==
    /\ rd_dirs \in UNION {[1..n -> TruthVolumes] : n \in 0..MaxSubjects}
    /\ rd_env \in {None, <<"1">>}
    /\ rd_list = None
    /\ rd_X = None
    /\ rd_y = None
    /\ rd_idx = 0
    /\ rd_pc = "args"

ReadIdle ==
    /\ rd_dirs = None
    /\ rd_env = None
    /\ rd_list = None
    /\ rd_X = None
    /\ rd_y = None
    /\ rd_idx = 0
    /\ rd_pc = "idle"

-----------------------------------------------------------------------------
(* The minibatch generators of the estimator *)

\* the largest number of subjects handed to predict
MaxNb == 8

\* the largest batch_size
MaxBatch == 3

\* the largest number of subjects handed to fit
MaxFitNb == 4

\* ImageLoader.load(img_index): the image of subject img_index, told apart
\* from the zeros of a fresh buffer (0) by being img_index + 1
load(img_index) == img_index + 1

\* range(start, stop) as a sequence
range(start, stop) == [i \in 1..(stop - start) |-> start + i - 1]

\* the for loop's body up to the yield: the slots 0 .. bs-1 of the buffer
\* are overwritten with the images of img_indices
fill(X, img_indices) ==
    [i \in 1..Len(X) |->
        IF i <= Len(img_indices) THEN load(img_indices[i]) ELSE X[i]]

test_minibatch_whole_buffer(X, start, stop) == fill(X, range(start, stop))

\* what _build_test_generator yields for the pass at start: X[:bs]
test_minibatch(X, start, stop) ==
    SubSeq(fill(X, range(start, stop)), 1, stop - start)

\* next(gen_test): the generator runs to its next yield, or returns
TestGenNext ==
    /\ tg_pc = "running"
    /\ IF tg_start < tg_nb
       THEN LET stop == Min({tg_start + tg_batch_size, tg_nb})
            IN  /\ tg_X' = fill(tg_X, range(tg_start, stop))
                /\ tg_yielded' =
                      Append(tg_yielded, test_minibatch(tg_X, tg_start, stop))
                /\ tg_start' = tg_start + tg_batch_size
                /\ tg_pc' = "running"
       ELSE /\ tg_pc' = "done"
            /\ UNCHANGED <<tg_X, tg_yielded, tg_start>>
    /\ UNCHANGED <<tg_nb, tg_batch_size>>

TestGenInit ==
    /\ tg_nb \in 0..MaxNb
    /\ tg_batch_size \in 1..MaxBatch
    /\ tg_start = 0
    /\ tg_X = [i \in 1..tg_batch_size |-> 0]
    /\ tg_yielded = <<>>
    /\ tg_pc = "running"

TestGenIdle ==
    /\ tg_nb = 0
    /\ tg_batch_size = 0
    /\ tg_start = 0
    /\ tg_X = None
    /\ tg_yielded = None
    /\ tg_pc = "idle"

\* the orders np.random.shuffle may leave a list in
Shuffles(seq) ==
    {[i \in 1..Len(seq) |-> seq[f[i]]] :
        f \in {g \in [1..Len(seq) -> 1..Len(seq)] :
                 \A a, b \in 1..Len(seq) : a # b => g[a] # g[b]}}

\* int(nb * 0.9)
nb_train(nb) == (nb * 9) \div 10

\* fit: the shuffled subjects are cut into ind_train and ind_valid and a
\* generator is built over one of them (its body has not run yet)
Fit ==
    /\ tr_pc = "fit"
    /\ \E indices \in Shuffles(range(0, tr_nb)) :
          tr_indices' = IF tr_role = "train"
                        THEN SubSeq(indices, 1, nb_train(tr_nb))
                        ELSE SubSeq(indices, nb_train(tr_nb) + 1, tr_nb)
    /\ tr_X' = [i \in 1..tr_batch_size |-> 0]
    /\ tr_start' = 0
    /\ tr_pc' = "while"
    /\ UNCHANGED <<tr_nb, tr_role, tr_batch_size, tr_batch, tr_pass, tr_requested>>

\* the consumer calls next(gen)
TrainGenRequest ==
    /\ tr_pc \in {"while", "for"}
    /\ ~tr_requested
    /\ tr_requested' = TRUE
    /\ UNCHANGED <<tr_nb, tr_role, tr_indices, tr_batch_size, tr_start, tr_X,
                   tr_batch, tr_pass, tr_pc>>

\* the top of `while True`: the shuffle, then the for loop is entered
TrainGenWhile ==
    /\ tr_pc = "while"
    /\ tr_requested
    /\ tr_indices' \in Shuffles(tr_indices)
    /\ tr_start' = 0
    /\ tr_pass' = <<>>
    /\ tr_pc' = "for"
    /\ UNCHANGED <<tr_nb, tr_role, tr_batch_size, tr_X, tr_batch, tr_requested>>

\* one pass of `for start in range(0, nb, batch_size)`: a minibatch is
\* built and yielded, or the range is exhausted and the while loop goes on
TrainGenFor ==
    /\ tr_pc = "for"
    /\ tr_requested
    /\ IF tr_start < Len(tr_indices)
       THEN LET stop == Min({tr_start + tr_batch_size, Len(tr_indices)})
                X == fill(tr_X, SubSeq(tr_indices, tr_start + 1, stop))
            IN  /\ tr_X' = X
                /\ tr_batch' = SubSeq(X, 1, stop - tr_start)
                /\ tr_pass' = tr_pass \o SubSeq(X, 1, stop - tr_start)
                /\ tr_requested' = FALSE
                /\ tr_start' = tr_start + tr_batch_size
                /\ tr_pc' = "for"
       ELSE /\ tr_pc' = "while"
            /\ UNCHANGED <<tr_X, tr_batch, tr_pass, tr_requested, tr_start>>
    /\ UNCHANGED <<tr_nb, tr_role, tr_indices, tr_batch_size>>

TrainGenInit ==
    /\ tr_nb \in 1..MaxFitNb
    /\ tr_role \in {"train", "valid"}
    /\ tr_batch_size \in 1..MaxBatch
    /\ tr_indices = None
    /\ tr_start = 0
    /\ tr_X = None
    /\ tr_batch = None
    /\ tr_pass = <<>>
    /\ tr_requested = FALSE
    /\ tr_pc = "fit"

TrainGenIdle ==
    /\ tr_nb = 0
    /\ tr_role = "none"
    /\ tr_batch_size = 0
    /\ tr_indices = None
    /\ tr_start = 0
    /\ tr_X = None
    /\ tr_batch = None
    /\ tr_pass = <<>>
    /\ tr_requested = FALSE
    /\ tr_pc = "idle"

-----------------------------------------------------------------------------
(* Specifications *)

ScoreInit ==
    /\ y_true_mask \in Masks
    /\ y_pred_mask \in Masks
    /\ sc_name = "none"
    /\ sc_outcome = "none"
    /\ sc_score = None
    /\ sc_delegated = FALSE

ScoreIdle ==
    /\ y_true_mask = None
    /\ y_pred_mask = None
    /\ sc_name = "none"
    /\ sc_outcome = "none"
    /\ sc_score = None
    /\ sc_delegated = FALSE

Init ==
    ScoreInit /\ CtorIdle /\ CombineIdle /\ CvIdle /\ ReadIdle /\ TestGenIdle /\ TrainGenIdle

Next ==
    \/ DiceCoeff_call /\ UNCHANGED <<ctorVars, combineVars, cvVars, readVars, testGenVars, trainGenVars>>
    \/ Precision_call /\ UNCHANGED <<ctorVars, combineVars, cvVars, readVars, testGenVars, trainGenVars>>
    \/ Recall_call /\ UNCHANGED <<ctorVars, combineVars, cvVars, readVars, testGenVars, trainGenVars>>
    \/ HausdorffDistance_call /\ UNCHANGED <<ctorVars, combineVars, cvVars, readVars, testGenVars, trainGenVars>>
    \/ AbsoluteVolumeDifference_call /\ UNCHANGED <<ctorVars, combineVars, cvVars, readVars, testGenVars, trainGenVars>>

Spec == Init /\ [][Next]_vars

\* the constructor alone
CtorNext == Construct /\ UNCHANGED <<scoreVars, combineVars, cvVars, readVars, testGenVars, trainGenVars>>

CtorStart ==
    ScoreIdle /\ CtorInit /\ CombineIdle /\ CvIdle /\ ReadIdle /\ TestGenIdle /\ TrainGenIdle

CtorSpec == CtorStart /\ [][CtorNext]_vars

\* combine, then valid_indexes
CombineNext ==
    \/ Combine /\ UNCHANGED <<scoreVars, ctorVars, cvVars, readVars, testGenVars, trainGenVars>>
    \/ ValidIndexes /\ UNCHANGED <<scoreVars, ctorVars, cvVars, readVars, testGenVars, trainGenVars>>

CombineStart ==
    ScoreIdle /\ CtorIdle /\ CombineInit /\ CvIdle /\ ReadIdle /\ TestGenIdle /\ TrainGenIdle

CombineSpec == CombineStart /\ [][CombineNext]_vars

\* get_cv and the iteration over its splits
CvNext ==
    \/ GetCv /\ UNCHANGED <<scoreVars, ctorVars, combineVars, readVars, testGenVars, trainGenVars>>
    \/ CvNextSplit /\ UNCHANGED <<scoreVars, ctorVars, combineVars, readVars, testGenVars, trainGenVars>>

CvStart ==
    ScoreIdle /\ CtorIdle /\ CombineIdle /\ CvInit /\ ReadIdle /\ TestGenIdle /\ TrainGenIdle

CvSpec == CvStart /\ [][CvNext]_vars

\* _read_data
ReadNext ==
    \/ ReadStart /\ UNCHANGED <<scoreVars, ctorVars, combineVars, cvVars, testGenVars, trainGenVars>>
    \/ ReadSubject /\ UNCHANGED <<scoreVars, ctorVars, combineVars, cvVars, testGenVars, trainGenVars>>
    \/ ReadReturn /\ UNCHANGED <<scoreVars, ctorVars, combineVars, cvVars, testGenVars, trainGenVars>>

ReadBegin ==
    ScoreIdle /\ CtorIdle /\ CombineIdle /\ CvIdle /\ ReadInit /\ TestGenIdle /\ TrainGenIdle

ReadSpec == ReadBegin /\ [][ReadNext]_vars

Others == <<scoreVars, ctorVars, combineVars, cvVars, readVars>>

\* predict's generator, pulled by the network until it is exhausted
TestGenStep == TestGenNext /\ UNCHANGED <<Others, trainGenVars>>

TestGenStart ==
    ScoreIdle /\ CtorIdle /\ CombineIdle /\ CvIdle /\ ReadIdle /\ TestGenInit /\ TrainGenIdle

TestGenSpec == TestGenStart /\ [][TestGenStep]_vars /\ WF_vars(TestGenStep)

\* the steps of a train generator's body; a generator that was asked for a
\* minibatch runs until it yields one
TrainGenRun ==
    \/ TrainGenWhile /\ UNCHANGED <<Others, testGenVars>>
    \/ TrainGenFor /\ UNCHANGED <<Others, testGenVars>>

TrainGenStep ==
    \/ Fit /\ UNCHANGED <<Others, testGenVars>>
    \/ TrainGenRequest /\ UNCHANGED <<Others, testGenVars>>
    \/ TrainGenRun

TrainGenStart ==
    ScoreIdle /\ CtorIdle /\ CombineIdle /\ CvIdle /\ ReadIdle /\ TestGenIdle /\ TrainGenInit

TrainGenSpec == TrainGenStart /\ [][TrainGenStep]_vars /\ WF_vars(TrainGenRun)

-----------------------------------------------------------------------------
(* Properties of the score functions, checked under Spec *)

Positives(mask) == {i \in 1..Len(mask) : mask[i] = 1}
IsBinary(mask) == \A i \in 1..Len(mask) : mask[i] = 0 \/ mask[i] = 1

\* C1: for binary volumes A (truth) and B (prediction), DiceCoeff returns 1
\* when neither has a positive voxel and 2*|A n B| / (|A| + |B|) otherwise;
\* the result lies in [0, 1], Dice(A, A) = 1, Dice(zeros, zeros) = 1, and
\* no division by zero is performed.
C1_Dice ==
    (sc_name = "DiceCoeff" /\ sc_outcome = "returned") =>
        LET A == Positives(y_true_mask)
            B == Positives(y_pred_mask)
        IN  /\ sc_score[2] > 0
            /\ (A = {} /\ B = {}) => sc_score[1] = sc_score[2]
            /\ ~(A = {} /\ B = {}) =>
                  sc_score[1] * (Cardinality(A) + Cardinality(B))
                    = 2 * Cardinality(A \cap B) * sc_score[2]
            /\ 0 <= sc_score[1] /\ sc_score[1] <= sc_score[2]
            /\ (y_true_mask = y_pred_mask) => sc_score[1] = sc_score[2]

\* DiceCoeff has returned for two different masks that overlap
C1_Witness ==
    /\ sc_name = "DiceCoeff"
    /\ sc_outcome = "returned"
    /\ Positives(y_true_mask) # Positives(y_pred_mask)
    /\ Positives(y_true_mask) \cap Positives(y_pred_mask) # {}

\* C2: every score type fails with an assertion error, returning no score,
\* exactly when the truth mask or the prediction mask holds an element
\* outside {0, 1}.
C2_MaskValidated ==
    (sc_outcome # "none") =>
        /\ (sc_outcome = "AssertionError")
              <=> ~(IsBinary(y_true_mask) /\ IsBinary(y_pred_mask))
        /\ (sc_outcome = "AssertionError") =>
              (sc_score = None /\ ~sc_delegated)
        /\ (sc_outcome = "returned") => sc_score # None

\* a score was refused for a prediction with a single voxel equal to 2
\* behind a valid first voxel, the truth being valid
C2_Witness ==
    /\ sc_name = "HausdorffDistance"
    /\ sc_outcome = "AssertionError"
    /\ IsBinary(y_true_mask)
    /\ y_pred_mask[1] = 1
    /\ Cardinality({i \in 1..Len(y_pred_mask) : y_pred_mask[i] = 2}) = 1

\* C3: Precision returns 0.0 without calling the library when the prediction
\* has no positive voxel and the truth has one; in every other case it
\* returns the library's precision, TP / (TP + FP) (0.0 when TP + FP = 0).
C3_Precision ==
    (sc_name = "Precision" /\ sc_outcome = "returned") =>
        LET A == Positives(y_true_mask)
            B == Positives(y_pred_mask)
            TP == Cardinality(A \cap B)
            FP == Cardinality(B \ A)
        IN  /\ (B = {} /\ A # {}) => (sc_score = <<0, 1>> /\ ~sc_delegated)
            /\ ~(B = {} /\ A # {}) =>
                  /\ sc_delegated
                  /\ sc_score[2] > 0
                  /\ (TP + FP > 0) => sc_score[1] * (TP + FP) = TP * sc_score[2]
                  /\ (TP + FP = 0) => sc_score[1] = 0

\* Precision has returned for an empty prediction and a non-empty truth
C3_Witness ==
    /\ sc_name = "Precision"
    /\ sc_outcome = "returned"
    /\ Positives(y_pred_mask) = {}
    /\ Positives(y_true_mask) # {}

-----------------------------------------------------------------------------
(* Properties of the constructor, checked under CtorSpec *)

\* C4: the constructor uses y_pred when it is given, else y_true when it is
\* given, else an (n_samples, X, Y, Z) array of NaN when n_samples is given;
\* with none of the three it raises a ValueError and creates no container.
C4_ConstructionOrder ==
    (ct_pc = "done") =>
        /\ (ct_args.y_pred # None) =>
              (ct_self # None /\ ct_self.y_pred = ct_args.y_pred)
        /\ (ct_args.y_pred = None /\ ct_args.y_true # None) =>
              (ct_self # None /\ ct_self.y_pred = ct_args.y_true)
        /\ (ct_args.y_pred = None /\ ct_args.y_true = None
                /\ ct_args.n_samples # None) =>
              /\ ct_self # None
              /\ ct_self.y_pred.shape = <<ct_args.n_samples[1], ct_args.x_len,
                                          ct_args.y_len, ct_args.z_len>>
              /\ Len(ct_self.y_pred.data) = ct_args.n_samples[1]
                    * ct_args.x_len * ct_args.y_len * ct_args.z_len
              /\ \A e \in 1..Len(ct_self.y_pred.data) :
                    isnan(ct_self.y_pred.data[e])
        /\ (ct_args.y_pred = None /\ ct_args.y_true = None
                /\ ct_args.n_samples = None) =>
              (ct_exc = "ValueError" /\ ct_self = None)

\* a container was built from y_pred although y_true and n_samples were
\* given as well
C4_Witness ==
    /\ ct_pc = "done"
    /\ ct_exc = "none"
    /\ ct_args.y_pred # None
    /\ ct_args.y_true # None
    /\ ct_args.y_true.shape = ct_args.y_pred.shape
    /\ ct_args.n_samples # None

\* the array the constructor's argument order selects
ChosenShape ==
    IF ct_args.y_pred # None THEN ct_args.y_pred.shape
    ELSE IF ct_args.y_true # None THEN ct_args.y_true.shape
    ELSE <<ct_args.n_samples[1], ct_args.x_len, ct_args.y_len, ct_args.z_len>>

SomethingGiven ==
    ct_args.y_pred # None \/ ct_args.y_true # None \/ ct_args.n_samples # None

-----------------------------------------------------------------------------
(* Properties of combine, checked under CombineSpec *)

\* the containers index_list selects, with repetitions
Selected ==
    IF cb_index_list = None
    THEN [j \in 1..Len(cb_preds) |-> cb_preds[j]]
    ELSE [j \in 1..Len(cb_index_list) |-> cb_preds[cb_index_list[j] + 1]]

\* the positions of Selected that are not NaN at entry e
Covering(e) == {j \in 1..Len(Selected) : ~isnan(Selected[j].y_pred.data[e])}

\* a value of FloatValues in tenths
Tenths(v) == (10 * v[1]) \div v[2]

RECURSIVE SumTenths(_, _)
SumTenths(J, e) ==
    IF J = {} THEN 0
    ELSE LET j == CHOOSE x \in J : TRUE
         IN  Tenths(Selected[j].y_pred.data[e]) + SumTenths(J \ {j}, e)

\* C6: every entry of the combined container is 0.0, 1.0 or NaN: 0.0 when the
\* average of the selected containers' non-NaN values there is < 0.5, 1.0
\* when it is >= 0.5, NaN exactly when every selected container is NaN there;
\* valid_indexes of the result is true exactly at the non-NaN entries.
C6_Combine ==
    (cb_pc \in {"combined", "queried"}) =>
        /\ cb_result.y_pred.shape = cb_preds[1].y_pred.shape
        /\ \A e \in 1..Len(cb_result.y_pred.data) :
              LET r == cb_result.y_pred.data[e]
                  J == Covering(e)
              IN  /\ r \in {<<0, 1>>, <<1, 1>>, NaN}
                  /\ (r = NaN) <=> (J = {})
                  /\ (J # {}) =>
                        ((r = <<1, 1>>) <=>
                            (SumTenths(J, e) >= 5 * Cardinality(J)))
                  /\ (cb_pc = "queried") => (cb_valid[e] <=> (J # {}))

\* two containers averaging to exactly 0.5 at an entry were combined to 1.0
\* there, and the result was asked for its valid indexes
C6_Witness ==
    /\ cb_pc = "queried"
    /\ \E e \in 1..Len(cb_result.y_pred.data) :
          /\ Cardinality(Covering(e)) = 2
          /\ SumTenths(Covering(e), e) = 10
          /\ cb_result.y_pred.data[e] = <<1, 1>>
          /\ cb_valid[e]

-----------------------------------------------------------------------------
(* Properties of get_cv, checked under CvSpec *)

CvFinished == cv_pc \in {"exhausted", "ValueError"}

\* the split last yielded holds out a fifth of the samples, rounded up, and
\* trains on the rest
HoldsOutFifth ==
    /\ cv_split.test \cup cv_split.train = 0..(cv_n - 1)
    /\ cv_split.test \cap cv_split.train = {}
    /\ 5 * Cardinality(cv_split.test) >= cv_n
    /\ 5 * (Cardinality(cv_split.test) - 1) < cv_n

\* C7 as stated: with RAMP_TEST_MODE unset, get_cv yields 8 splits each
\* holding out 20% of the samples; with it set to any value, exactly 1 split
\* (datasets of at least two samples).
C7_AsStated ==
    (CvFinished /\ cv_n >= 2) =>
        /\ cv_pc = "exhausted"
        /\ HoldsOutFifth
        /\ (cv_env = None) => cv_yielded = 8
        /\ (cv_env # None) => cv_yielded = 1

\* C7 amended: with RAMP_TEST_MODE unset or set to the empty string, get_cv
\* over a dataset of at least two samples yields 8 splits, each holding out a
\* fifth of the samples rounded up; with it set to a non-empty string,
\* exactly 1 such split.
C7_Amended ==
    /\ (cv_split # None) => HoldsOutFifth
    /\ (cv_pc = "iterating") => cv_yielded <= cv_n_splits
    /\ (cv_pc = "ValueError") => cv_n < 2
    /\ (cv_pc = "exhausted") =>
          /\ cv_n >= 2
          /\ (cv_env = None \/ cv_env = <<"">>) => cv_yielded = 8
          /\ (cv_env # None /\ cv_env # <<"">>) => cv_yielded = 1

\* the iterator ran dry after 8 splits although RAMP_TEST_MODE was set
C7_Witness ==
    /\ cv_pc = "exhausted"
    /\ cv_env = <<"">>
    /\ cv_yielded = 8

-----------------------------------------------------------------------------
(* Properties of _read_data, checked under ReadSpec *)

\* C8: _read_data fails with an assertion error exactly when a loaded truth
\* volume holds a value outside {0, 1}; otherwise it returns one path and
\* one binary label volume per subject (the first 3 in test mode), whatever
\* the unwritten rows of the label tensor held.
C8_ReadData ==
    LET n == IF rd_env = None THEN Len(rd_dirs) ELSE Min({3, Len(rd_dirs)})
        bad == {i \in 1..n : ~IsBinary(rd_dirs[i])}
    IN  /\ (rd_pc = "AssertionError") => bad # {}
        /\ (rd_pc = "returned") =>
              /\ bad = {}
              /\ Len(rd_X) = n
              /\ Len(rd_y) = n
              /\ \A i \in 1..n : rd_y[i] = rd_dirs[i] /\ rd_X[i] # <<>>

-----------------------------------------------------------------------------
(* Properties of the generators *)

RECURSIVE Concat(_)
Concat(batches) ==
    IF batches = <<>> THEN <<>> ELSE Head(batches) \o Concat(Tail(batches))

\* what the exhausted test generator has handed out
TestGenResult ==
    LET n == Len(tg_yielded)
    IN  /\ n * tg_batch_size >= tg_nb
        /\ (n - 1) * tg_batch_size < tg_nb \/ (n = 0 /\ tg_nb = 0)
        /\ \A b \in 1..n :
              Len(tg_yielded[b]) =
                 IF b < n \/ tg_nb % tg_batch_size = 0
                 THEN tg_batch_size
                 ELSE tg_nb % tg_batch_size
        /\ Concat(tg_yielded) = [i \in 1..tg_nb |-> load(i - 1)]

\* C9 (TestGenSpec): the inference generator terminates after yielding
\* ceil(nb / batch_size) minibatches, all of batch_size subjects but a last
\* one of nb mod batch_size when that is not zero, whose concatenation is the
\* subjects 0 .. nb-1 in order, each once.
C9_TestGenerator == <>(tg_pc = "done" /\ TestGenResult)

\* the generator is exhausted after a full minibatch and a shorter last one
C9_Witness ==
    /\ tg_pc = "done"
    /\ tg_nb > tg_batch_size
    /\ tg_nb % tg_batch_size # 0
    /\ Len(tg_yielded) >= 2

\* the images of a list of subjects, as a set
Images(indices) == {load(indices[i]) : i \in 1..Len(indices)}

\* C10 (TrainGenSpec): every request for the next minibatch of a training
\* generator is eventually answered, with between 1 and batch_size subjects,
\* and each pass over the list yields every index exactly once.
C10_TrainGenerator ==
    /\ tr_requested ~> ~tr_requested
    /\ [](tr_batch # None =>
            (Len(tr_batch) >= 1 /\ Len(tr_batch) <= tr_batch_size))
    /\ []((tr_pc = "for" /\ tr_start >= Len(tr_indices)) =>
            (Len(tr_pass) = Len(tr_indices) /\ Images(tr_indices) =
                {tr_pass[i] : i \in 1..Len(tr_pass)}))

=============================================================================
